---- MODULE Spec2Model ----
(***************************************************************************)
(* Model of granulate_utils/metadata/databricks_client.py: the metadata    *)
(* discovery of DBXWebUIEnvWrapper (extract_relevant_metadata and the      *)
(* resolver -> lister -> fetcher -> extractor chain it polls) and the      *)
(* value normalisation of _apply_pattern.                                  *)
(*                                                                         *)
(* A Python str is modelled as a sequence of one-character strings, so     *)
(* that replace, lower, `in` and re.sub are computed character by          *)
(* character.  A dict is a function whose DOMAIN is its key set.           *)
(***************************************************************************)
EXTENDS Integers, Sequences, FiniteSets

VARIABLES
    pc,               \* position in the code
    state,            \* orchestrator state: Init, Polling, Success, TimedOut, Aborted, Raised
    enable_retries,   \* self.enable_retries
    now,              \* time.monotonic(), in seconds
    start_time,       \* local start_time of extract_relevant_metadata
    apps_url,         \* self._apps_url (Optional)
    attempts,         \* calls of _cluster_all_tags_metadata made so far
    sleeps,           \* calls of time.sleep made so far
    io,               \* the I/O operation performed by the last step
    chain,            \* how the current _cluster_all_tags_metadata call ended
    apps,             \* local apps of _cluster_all_tags_metadata
    env_url,          \* local env_url of _spark_app_env_json (Optional)
    spark_properties, \* dict(sparkProperties) of the current attempt's environment response
    all_props_dict,   \* what extract_relevant_metadata returned (self.all_props_dict)
    metadata_in,      \* argument of a direct _apply_pattern or get_name_from_metadata call
    metadata_out,     \* result of a direct _apply_pattern call
    file_properties,  \* local properties of get_webui_address: the contents read (Optional)
    response,         \* the last HTTP response received, with the URL requested
    stages,           \* the stages the current _cluster_all_tags_metadata call has run
    webui_address,    \* results of the direct get_webui_address calls made so far
    name              \* result of a direct get_name_from_metadata call

vars == <<pc, state, enable_retries, now, start_time, apps_url, attempts, sleeps, io,
          chain, apps, env_url, spark_properties, all_props_dict, metadata_in, metadata_out,
          file_properties, response, stages, webui_address, name>>

(***************************************************************************)
(* Bounds of the model.                                                    *)
(***************************************************************************)
\* longest clusterAllTags array drawn for an environment response
MaxTags == 2
\* longest application list drawn for an applications response
MaxApps == 2
\* most fragments concatenated into a cluster name handed to _apply_pattern
MaxTokens == 4
\* most lines of a properties file handed to get_webui_address
MaxLines == 3
\* most calls of get_webui_address made on the same file
MaxCalls == 2

(***************************************************************************)
(* Module constants of databricks_client.py.                               *)
(***************************************************************************)
HOST_KEY_NAME == "*.sink.ganglia.host"
CLUSTER_USAGE_ALL_TAGS_PROP == "spark.databricks.clusterUsageTags.clusterAllTags"
CLUSTER_USAGE_CLUSTER_NAME_PROP == "spark.databricks.clusterUsageTags.clusterName"
CLUSTER_USAGE_RELEVANT_TAGS_PROPS ==
    { "spark.databricks.clusterUsageTags.cloudProvider",
      "spark.databricks.clusterUsageTags.clusterAvailability",
      "spark.databricks.clusterUsageTags.clusterCreator",
      "spark.databricks.clusterUsageTags.clusterFirstOnDemand",
      "spark.databricks.clusterUsageTags.clusterMaxWorkers",
      "spark.databricks.clusterUsageTags.clusterMinWorkers",
      "spark.databricks.clusterUsageTags.clusterNodeType",
      "spark.databricks.clusterUsageTags.clusterScalingType",
      "spark.databricks.clusterUsageTags.clusterSizeType",
      "spark.databricks.clusterUsageTags.clusterSku",
      "spark.databricks.clusterUsageTags.clusterSpotBidMaxPrice",
      "spark.databricks.clusterUsageTags.clusterTargetWorkers",
      "spark.databricks.clusterUsageTags.clusterWorkers",
      "spark.databricks.clusterUsageTags.driverNodeType" }
DATABRICKS_REDACTED_STR == <<"r", "e", "d", "a", "c", "t", "e", "d">>
JOB_NAME_KEY == "RunName"
CLUSTER_NAME_KEY == "ClusterName"
DEFAULT_WEBUI_PORT == 40001
DATABRICKS_JOBNAME_TIMEOUT_S == 2 * 60
RETRY_INTERVAL_S == 1

(***************************************************************************)
(* str operations.                                                         *)
(***************************************************************************)
UpperChars == <<"A", "B", "C", "D", "E", "F", "G", "H", "I", "J", "K", "L", "M",
                "N", "O", "P", "Q", "R", "S", "T", "U", "V", "W", "X", "Y", "Z">>
LowerChars == <<"a", "b", "c", "d", "e", "f", "g", "h", "i", "j", "k", "l", "m",
                "n", "o", "p", "q", "r", "s", "t", "u", "v", "w", "x", "y", "z">>
Digits == {"0", "1", "2", "3", "4", "5", "6", "7", "8", "9"}

\* c.isupper() for one character
IsUpper(c) == \E i \in DOMAIN UpperChars : UpperChars[i] = c

\* s.lower()
str_lower(s) ==
    [i \in DOMAIN s |->
        IF IsUpper(s[i])
        THEN LowerChars[CHOOSE k \in DOMAIN UpperChars : UpperChars[k] = s[i]]
        ELSE s[i]]

\* s.replace(old, new) for one-character old and new
str_replace(s, old, new) == [i \in DOMAIN s |-> IF s[i] = old THEN new ELSE s[i]]

\* sub in s
str_contains(s, sub) ==
    \E i \in 1..(Len(s) - Len(sub) + 1) : SubSeq(s, i, i + Len(sub) - 1) = sub

\* Where a match of RUN_ID_REGEX = "run-\d+-" that starts at index i of s ends, 0 when
\* none starts there.  \d+ is greedy and the "-" after it is no digit, so the only
\* candidate is "run-", the longest run of digits, "-".
run_id_match_end(s, i) ==
    LET ds == {k \in (i + 4)..Len(s) : \A j \in (i + 4)..k : s[j] \in Digits}
        d  == IF ds = {} THEN i + 3 ELSE CHOOSE k \in ds : \A m \in ds : m <= k
    IN  IF /\ i + 3 <= Len(s)
           /\ SubSeq(s, i, i + 3) = <<"r", "u", "n", "-">>
           /\ d >= i + 4
           /\ d + 1 <= Len(s)
           /\ s[d + 1] = "-"
        THEN d + 1
        ELSE 0

RECURSIVE re_sub_from(_, _)
\* re.sub scans left to right: a match is dropped and the scan resumes after it,
\* any other character is copied.
re_sub_from(s, i) ==
    IF i > Len(s)
    THEN <<>>
    ELSE LET e == run_id_match_end(s, i)
         IN  IF e > 0
             THEN re_sub_from(s, e + 1)
             ELSE <<s[i]>> \o re_sub_from(s, i + 1)

\* variant: the cluster name is left as it is
re_sub_no_strip(s) == s

\* re.sub(RUN_ID_REGEX, "", s)
re_sub_run_id(s) == re_sub_from(s, 1)

(***************************************************************************)
(* dict operations.                                                        *)
(***************************************************************************)
EmptyDict == [k \in {} |-> <<>>]

\* d[k] = v
dict_set(d, k, v) == [x \in (DOMAIN d) \cup {k} |-> IF x = k THEN v ELSE d[x]]

\* d.update(e)
dict_update(d, e) ==
    [x \in (DOMAIN d) \cup (DOMAIN e) |-> IF x \in DOMAIN e THEN e[x] ELSE d[x]]

\* Optional[Dict]: None, or a dict
NoneValue == [is_none |-> TRUE, dict |-> EmptyDict]
Some(d) == [is_none |-> FALSE, dict |-> d]

\* bool(v) of an Optional[Dict]: None and the empty dict are falsy
Truthy(v) == ~v.is_none /\ DOMAIN v.dict # {}

(***************************************************************************)
(* DBXWebUIEnvWrapper._apply_pattern                                       *)
(***************************************************************************)
normalize_name(s) == str_lower(str_replace(s, " ", "-"))

\* variant: spaces are replaced, letters are not lower-cased
apply_pattern_no_lower(metadata) ==
    [k \in DOMAIN metadata |->
        IF k = JOB_NAME_KEY THEN str_replace(metadata[k], " ", "-")
        ELSE IF k = CLUSTER_NAME_KEY
             THEN str_replace(re_sub_run_id(metadata[k]), " ", "-")
             ELSE metadata[k]]

_apply_pattern(metadata) ==
    [k \in DOMAIN metadata |->
        IF k = JOB_NAME_KEY THEN normalize_name(metadata[k])
        ELSE IF k = CLUSTER_NAME_KEY THEN normalize_name(re_sub_run_id(metadata[k]))
             ELSE metadata[k]]

(***************************************************************************)
(* The inputs of a run: what the file system and the web UI may answer.    *)
(***************************************************************************)
\* "My Job 1", the job name of the documentation's example
JobNameValue == <<"M", "y", " ", "J", "o", "b", " ", "1">>
\* "run-12-prod Cluster", a cluster name that embeds a run id
ClusterNameValue ==
    <<"r", "u", "n", "-", "1", "2", "-", "p", "r", "o", "d", " ", "C", "l", "u", "s", "t", "e", "r">>
\* "Data Bricks", the value of a tag that is neither name
VendorValue == <<"D", "a", "t", "a", " ", "B", "r", "i", "c", "k", "s">>
\* "AWS", the value of a whitelisted cluster-configuration property
CloudProviderValue == <<"A", "W", "S">>
\* "[redacted]", what the platform puts in place of a sensitive value
RedactedValue == <<"[">> \o DATABRICKS_REDACTED_STR \o <<"]">>

CloudProviderProp == "spark.databricks.clusterUsageTags.cloudProvider"

\* the {key, value} records a clusterAllTags array is made of
TagRecords ==
    { [key |-> JOB_NAME_KEY, value |-> JobNameValue],
      [key |-> CLUSTER_NAME_KEY, value |-> ClusterNameValue],
      [key |-> "Vendor", value |-> VendorValue],
      [key |-> "Creator", value |-> RedactedValue] }

RECURSIVE SeqsUpTo(_, _)
\* the sequences over S of length at most n
SeqsUpTo(S, n) ==
    IF n = 0
    THEN {<<>>}
    ELSE LET shorter == SeqsUpTo(S, n - 1)
         IN  shorter \cup {Append(q, x) : q \in shorter, x \in S}

RECURSIVE json_dumps_items(_)
json_dumps_items(tags) ==
    IF tags = <<>>
    THEN <<>>
    ELSE <<"{", "key", ":", Head(tags).key, ",", "value", ":", "\"">>
         \o Head(tags).value \o <<"\"", "}">> \o json_dumps_items(Tail(tags))

\* The text of a clusterAllTags array: the punctuation, and every value character by
\* character (a key is one symbol of the text).
json_dumps(tags) == <<"[">> \o json_dumps_items(tags) \o <<"]">>

\* A raw clusterAllTags property value: its text, and what json.loads makes of that
\* text ("array" with its items, "object" for a JSON value that is no array of
\* records, "invalid" when json.loads raises).
AllTagsValues ==
    {[text |-> json_dumps(tags), json |-> "array", items |-> tags] :
        tags \in SeqsUpTo(TagRecords, MaxTags)}
    \cup { [text |-> RedactedValue, json |-> "invalid", items |-> <<>>],
           [text |-> <<"[", "{">>, json |-> "invalid", items |-> <<>>],
           [text |-> <<"{", "}">>, json |-> "object", items |-> <<>>],
           [text |-> <<"{", "a", ":", "1", "}">>, json |-> "object", items |-> <<>>] }

Absent == [present |-> FALSE, v |-> <<>>]
Present(x) == [present |-> TRUE, v |-> x]

\* dict(sparkProperties) for the three properties the extraction reads
SparkPropertiesOf(all_tags, cluster_name, cloud_provider) ==
    LET opts == [p \in {CLUSTER_USAGE_ALL_TAGS_PROP, CLUSTER_USAGE_CLUSTER_NAME_PROP,
                        CloudProviderProp} |->
                    IF p = CLUSTER_USAGE_ALL_TAGS_PROP THEN all_tags
                    ELSE IF p = CLUSTER_USAGE_CLUSTER_NAME_PROP THEN cluster_name
                         ELSE cloud_provider]
    IN  [p \in {q \in DOMAIN opts : opts[q].present} |-> opts[p].v]

SparkPropertiesValues ==
    { SparkPropertiesOf(a, c, w) :
        a \in {Absent} \cup {Present(x) : x \in AllTagsValues},
        c \in {Absent, Present(ClusterNameValue), Present(RedactedValue)},
        w \in {Absent, Present(CloudProviderValue), Present(RedactedValue)} }

(***************************************************************************)
(* DBXWebUIEnvWrapper._cluster_all_tags_metadata, lines 189-220: from      *)
(* dict(sparkProperties) to the returned mapping, or the exception raised. *)
(***************************************************************************)
Returned(v) == [kind |-> "returned", value |-> v]
Raised(exception) == [kind |-> exception, value |-> NoneValue]
Running == [kind |-> "running", value |-> NoneValue]

\* {tag["key"]: tag["value"] for tag in tags}: a later record of a key wins
tags_dict(tags) ==
    [k \in {tags[i].key : i \in DOMAIN tags} |->
        tags[CHOOSE i \in DOMAIN tags :
                /\ tags[i].key = k
                /\ \A j \in DOMAIN tags : tags[j].key = k => j <= i].value]

\* lines 214-218: the whitelisted properties that are not redacted
relevant_tags(props) ==
    [k \in {p \in DOMAIN props :
                /\ p \in CLUSTER_USAGE_RELEVANT_TAGS_PROPS
                /\ ~str_contains(props[p], DATABRICKS_REDACTED_STR)} |-> props[k]]

\* variant: the extraction with _apply_pattern left out
extract_metadata_unnormalized(props) ==
    LET has_tags == CLUSTER_USAGE_ALL_TAGS_PROP \in DOMAIN props
        raw      == props[CLUSTER_USAGE_ALL_TAGS_PROP]
    IN  IF has_tags /\ ~str_contains(raw.text, DATABRICKS_REDACTED_STR)
        THEN IF raw.json = "invalid" THEN Raised("DatabricksJobNameDiscoverException")
             ELSE IF raw.json = "object" /\ raw.text # <<"{", "}">> THEN Raised("Exception")
             ELSE Returned(Some(
                      dict_update(tags_dict(raw.items), relevant_tags(props))))
        ELSE IF CLUSTER_USAGE_CLUSTER_NAME_PROP \in DOMAIN props
             THEN Returned(Some(
                      dict_update(
                          dict_set(EmptyDict, CLUSTER_NAME_KEY,
                                   props[CLUSTER_USAGE_CLUSTER_NAME_PROP]),
                          relevant_tags(props))))
             ELSE Raised("DatabricksJobNameDiscoverException")

\* variant: the extraction falls back to the cluster name whenever clusterAllTags is
\* absent or redacted, without raising when the cluster name is absent too
extract_metadata_no_raise(props) ==
    LET has_tags == CLUSTER_USAGE_ALL_TAGS_PROP \in DOMAIN props
        raw      == props[CLUSTER_USAGE_ALL_TAGS_PROP]
    IN  IF has_tags /\ ~str_contains(raw.text, DATABRICKS_REDACTED_STR)
        THEN IF raw.json = "invalid" THEN Raised("DatabricksJobNameDiscoverException")
             ELSE IF raw.json = "object" /\ raw.text # <<"{", "}">> THEN Raised("Exception")
             ELSE Returned(Some(_apply_pattern(
                      dict_update(tags_dict(raw.items), relevant_tags(props)))))
        ELSE Returned(Some(_apply_pattern(
                      dict_update(
                          IF CLUSTER_USAGE_CLUSTER_NAME_PROP \in DOMAIN props
                          THEN dict_set(EmptyDict, CLUSTER_NAME_KEY,
                                        props[CLUSTER_USAGE_CLUSTER_NAME_PROP])
                          ELSE EmptyDict,
                          relevant_tags(props)))))

\* variant: the clusterAllTags value is used whenever it is present, redacted or not
extract_metadata_ignore_redaction(props) ==
    LET has_tags == CLUSTER_USAGE_ALL_TAGS_PROP \in DOMAIN props
        raw      == props[CLUSTER_USAGE_ALL_TAGS_PROP]
    IN  IF has_tags
        THEN IF raw.json = "invalid" THEN Raised("DatabricksJobNameDiscoverException")
             ELSE IF raw.json = "object" /\ raw.text # <<"{", "}">> THEN Raised("Exception")
             ELSE Returned(Some(_apply_pattern(
                      dict_update(tags_dict(raw.items), relevant_tags(props)))))
        ELSE IF CLUSTER_USAGE_CLUSTER_NAME_PROP \in DOMAIN props
             THEN Returned(Some(_apply_pattern(
                      dict_update(
                          dict_set(EmptyDict, CLUSTER_NAME_KEY,
                                   props[CLUSTER_USAGE_CLUSTER_NAME_PROP]),
                          relevant_tags(props)))))
             ELSE Raised("DatabricksJobNameDiscoverException")

\* lines 189-220
extract_metadata(props) ==
    LET has_tags == CLUSTER_USAGE_ALL_TAGS_PROP \in DOMAIN props
        raw      == props[CLUSTER_USAGE_ALL_TAGS_PROP]
    IN  IF has_tags /\ ~str_contains(raw.text, DATABRICKS_REDACTED_STR)
        THEN \* json.loads raises: DatabricksJobNameDiscoverException (lines 194-197)
             IF raw.json = "invalid" THEN Raised("DatabricksJobNameDiscoverException")
             \* iterating a JSON object yields its keys, and key["key"] raises TypeError
             \* outside the try; an empty object yields nothing
             ELSE IF raw.json = "object" /\ raw.text # <<"{", "}">> THEN Raised("Exception")
             ELSE Returned(Some(_apply_pattern(
                      dict_update(tags_dict(raw.items), relevant_tags(props)))))
        ELSE IF CLUSTER_USAGE_CLUSTER_NAME_PROP \in DOMAIN props
             THEN Returned(Some(_apply_pattern(
                      dict_update(
                          dict_set(EmptyDict, CLUSTER_NAME_KEY,
                                   props[CLUSTER_USAGE_CLUSTER_NAME_PROP]),
                          relevant_tags(props)))))
             ELSE Raised("DatabricksJobNameDiscoverException")

(***************************************************************************)
(* DBXWebUIEnvWrapper.get_webui_address                                    *)
(*                                                                         *)
(* The properties file is the sequence of its lines (what splitlines()     *)
(* returns); a line is a sequence of symbols, "=" being one of them.       *)
(***************************************************************************)
\* line.split("=", 1): one element when the line has no "=", else the text before the
\* first "=" and the text after it
split_first_eq(line) ==
    IF \E i \in DOMAIN line : line[i] = "="
    THEN LET i == CHOOSE k \in DOMAIN line :
                      /\ line[k] = "="
                      /\ \A j \in DOMAIN line : line[j] = "=" => k <= j
         IN  <<SubSeq(line, 1, i - 1), SubSeq(line, i + 1, Len(line))>>
    ELSE <<line>>

\* variant: on a duplicated key the first line defining it is kept
get_webui_address_first_wins(properties) ==
    LET pairs == [i \in DOMAIN properties |-> split_first_eq(properties[i])]
        defs  == {i \in DOMAIN pairs : pairs[i][1] = <<HOST_KEY_NAME>>}
    IN  IF \E i \in DOMAIN pairs : Len(pairs[i]) # 2
        THEN [kind |-> "DatabricksJobNameDiscoverException", address |-> <<>>]
        ELSE IF defs = {}
        THEN [kind |-> "none", address |-> <<>>]
        ELSE [kind |-> "returned",
              address |-> pairs[CHOOSE i \in defs : \A j \in defs : i <= j][2]
                          \o <<":", DEFAULT_WEBUI_PORT>>]

\* lines 72-81, on the contents read: the address, None, or the exception raised
get_webui_address(properties) ==
    LET pairs == [i \in DOMAIN properties |-> split_first_eq(properties[i])]
        defs  == {i \in DOMAIN pairs : pairs[i][1] = <<HOST_KEY_NAME>>}
    IN  \* dict() of a sequence with an element of length 1 raises ValueError
        IF \E i \in DOMAIN pairs : Len(pairs[i]) # 2
        THEN [kind |-> "DatabricksJobNameDiscoverException", address |-> <<>>]
        \* KeyError(HOST_KEY_NAME): might happen while provisioning the cluster
        ELSE IF defs = {}
        THEN [kind |-> "none", address |-> <<>>]
        \* the last line defining a key is the one dict() keeps
        ELSE [kind |-> "returned",
              address |-> pairs[CHOOSE i \in defs : \A j \in defs : j <= i][2]
                          \o <<":", DEFAULT_WEBUI_PORT>>]

\* SPARKUI_APPS_URL.format(address)
sparkui_apps_url(address) == <<"http://">> \o address \o <<"/api/v1/applications">>

\* what open() and read() may give: the contents, or an OSError (the file is gone or
\* unreadable)
FileContents ==
    { <<>>,
      << <<"spark.x", "=", "1">> >>,
      << <<HOST_KEY_NAME, "=", "10.0.0.1">> >>,
      << <<HOST_KEY_NAME, "=", "10.0.0.1">>, <<HOST_KEY_NAME, "=", "10.0.0.2">> >>,
      << <<"spark.x", "=", "1">>, <<HOST_KEY_NAME, "=", "10.0.0.2">> >>,
      << <<HOST_KEY_NAME, "=", "10.0.0.1">>, <<>> >>,
      << <<"garbage">> >> }

OpenOutcomes ==
    {[ok |-> TRUE, properties |-> c] : c \in FileContents}
    \cup {[ok |-> FALSE, properties |-> <<>>]}

NoUrl == [is_none |-> TRUE, url |-> <<>>]
Url(u) == [is_none |-> FALSE, url |-> u]

\* Optional contents of the properties file: nothing read, or the lines read
NoProperties == [is_none |-> TRUE, lines |-> <<>>]
PropertiesRead(c) == [is_none |-> FALSE, lines |-> c]

\* no HTTP request made yet in the attempt
NoResponse == [endpoint |-> "none", url |-> <<>>, body |-> [kind |-> "none"]]

\* Optional[str] returned by get_name_from_metadata
NoName == [is_none |-> TRUE, str |-> <<>>]
SomeName(n) == [is_none |-> FALSE, str |-> n]

(***************************************************************************)
(* The answers of the web UI.                                              *)
(***************************************************************************)
AppRecords ==
    { [has_id |-> TRUE, id |-> "app-1"],
      [has_id |-> TRUE, id |-> "app-2"],
      [has_id |-> FALSE, id |-> ""] }

\* GET {apps_url}: the request fails (requests.exceptions.RequestException: connection
\* refused, timeout, error status), or the body is no JSON (with or without the
\* "Spark is starting up" text), or it is JSON: a list, null, or a number
AppsResponses ==
    { [kind |-> "request_exception", starting_up |-> FALSE, json |-> "none", items |-> <<>>],
      [kind |-> "not_json", starting_up |-> TRUE, json |-> "none", items |-> <<>>],
      [kind |-> "not_json", starting_up |-> FALSE, json |-> "none", items |-> <<>>],
      [kind |-> "json", starting_up |-> FALSE, json |-> "null", items |-> <<>>],
      [kind |-> "json", starting_up |-> FALSE, json |-> "number", items |-> <<>>] }
    \cup {[kind |-> "json", starting_up |-> FALSE, json |-> "list", items |-> l] :
            l \in SeqsUpTo(AppRecords, MaxApps)}

\* GET {env_url}: the request fails, or raise_for_status() finds an error status, or the
\* body is no JSON, or it is JSON: a list, or an object without sparkProperties, with a
\* sparkProperties that dict() rejects, or with a sparkProperties table
EnvResponses ==
    {[kind |-> k, spark_properties |-> EmptyDict] :
        k \in {"request_exception", "http_error", "not_json", "json_list",
               "no_spark_properties", "bad_spark_properties"}}
    \cup {[kind |-> "json_object", spark_properties |-> p] : p \in SparkPropertiesValues}

(***************************************************************************)
(* DBXWebUIEnvWrapper.extract_relevant_metadata and the chain it polls     *)
(***************************************************************************)
Init ==
    /\ pc = "enter"
    /\ state = "Init"
    /\ enable_retries \in BOOLEAN
    /\ now = 0
    /\ start_time = 0
    /\ apps_url = NoUrl
    /\ attempts = 0
    /\ sleeps = 0
    /\ io = "none"
    /\ chain = Running
    /\ apps = <<>>
    /\ env_url = NoUrl
    /\ spark_properties = EmptyDict
    /\ all_props_dict = NoneValue
    /\ metadata_in = EmptyDict
    /\ metadata_out = EmptyDict
    /\ file_properties = NoProperties
    /\ response = NoResponse
    /\ stages = <<>>
    /\ webui_address = <<>>
    /\ name = NoName

\* line 85
Enter ==
    /\ pc = "enter"
    /\ start_time' = now
    /\ state' = "Polling"
    /\ pc' = "while"
    /\ io' = "none"
    /\ UNCHANGED <<enable_retries, now, apps_url, attempts, sleeps, chain, apps, env_url,
                   spark_properties, all_props_dict, metadata_in, metadata_out, file_properties,
                   response, stages, webui_address, name>>

\* variant: the loop goes on while the elapsed time is at most the timeout
loop_condition_inclusive == now - start_time <= DATABRICKS_JOBNAME_TIMEOUT_S

\* line 86: the loop condition
loop_condition == now - start_time < DATABRICKS_JOBNAME_TIMEOUT_S

\* line 86 true, line 88: _cluster_all_tags_metadata is called
WhileEnter ==
    /\ pc = "while"
    /\ loop_condition
    /\ attempts' = attempts + 1
    /\ chain' = Running
    /\ spark_properties' = EmptyDict
    /\ response' = NoResponse
    /\ stages' = <<>>
    /\ pc' = "isfile"
    /\ io' = "none"
    /\ UNCHANGED <<state, enable_retries, now, start_time, apps_url, sleeps, apps, env_url,
                   all_props_dict, metadata_in, metadata_out, file_properties, webui_address, name>>

\* line 86 false
WhileExit ==
    /\ pc = "while"
    /\ ~loop_condition
    /\ pc' = "after_loop"
    /\ io' = "none"
    /\ UNCHANGED <<state, enable_retries, now, start_time, apps_url, attempts, sleeps, chain,
                   apps, env_url, spark_properties, all_props_dict, metadata_in, metadata_out,
                   file_properties, response, stages, webui_address, name>>

\* the chain call returns v or raises: control is back in extract_relevant_metadata
ChainEnds(outcome) ==
    /\ chain' = outcome
    /\ pc' = "dispatch"
    /\ apps' = <<>>
    /\ env_url' = NoUrl
    /\ file_properties' = NoProperties
    /\ UNCHANGED spark_properties

\* lines 161-163
IsFile ==
    /\ pc = "isfile"
    /\ io' = "isfile"
    /\ stages' = Append(stages, "resolver")
    /\ \E exists \in BOOLEAN :
          IF exists
          THEN /\ pc' = "discover"
               /\ UNCHANGED <<chain, apps, env_url, spark_properties, file_properties>>
          ELSE ChainEnds(Returned(NoneValue))
    /\ UNCHANGED <<apps_url, response>>
    /\ UNCHANGED <<state, enable_retries, now, start_time, attempts, sleeps, all_props_dict,
                   metadata_in, metadata_out, webui_address, name>>

\* variant: the address is resolved anew in every attempt
DiscoverAppsUrl_NoCache ==
    /\ pc = "discover"
    /\ IF FALSE
       THEN /\ io' = "none"
            /\ pc' = "apps"
            /\ UNCHANGED <<chain, apps, env_url, spark_properties, file_properties>>
       ELSE /\ io' = "open"
            /\ \E f \in OpenOutcomes :
                  IF ~f.ok
                  THEN \* open() raises before the try of get_webui_address
                       ChainEnds(Raised("Exception"))
                  ELSE /\ file_properties' = PropertiesRead(f.properties)
                       /\ pc' = "parse"
                       /\ UNCHANGED <<chain, apps, env_url, spark_properties>>
    /\ UNCHANGED <<apps_url, response, stages>>
    /\ UNCHANGED <<state, enable_retries, now, start_time, attempts, sleeps, all_props_dict,
                   metadata_in, metadata_out, webui_address, name>>

\* lines 165, 113-116, and lines 70-71 of get_webui_address: open() and read()
DiscoverAppsUrl ==
    /\ pc = "discover"
    /\ IF ~apps_url.is_none
       THEN /\ io' = "none"
            /\ pc' = "apps"
            /\ UNCHANGED <<chain, apps, env_url, spark_properties, file_properties>>
       ELSE /\ io' = "open"
            /\ \E f \in OpenOutcomes :
                  IF ~f.ok
                  THEN \* open() raises before the try of get_webui_address
                       ChainEnds(Raised("Exception"))
                  ELSE /\ file_properties' = PropertiesRead(f.properties)
                       /\ pc' = "parse"
                       /\ UNCHANGED <<chain, apps, env_url, spark_properties>>
    /\ UNCHANGED <<apps_url, response, stages>>
    /\ UNCHANGED <<state, enable_retries, now, start_time, attempts, sleeps, all_props_dict,
                   metadata_in, metadata_out, webui_address, name>>

\* lines 72-81 of get_webui_address on the contents read, and lines 116-120, 165-167
ParseProperties ==
    /\ pc = "parse"
    /\ io' = "none"
    /\ LET r == get_webui_address(file_properties.lines)
       IN  IF r.kind = "returned"
           THEN /\ apps_url' = Url(sparkui_apps_url(r.address))
                /\ pc' = "apps"
                /\ file_properties' = NoProperties
                /\ UNCHANGED <<chain, apps, env_url, spark_properties>>
           ELSE IF r.kind = "none"
           THEN /\ ChainEnds(Returned(NoneValue))
                /\ UNCHANGED apps_url
           ELSE /\ ChainEnds(Raised(r.kind))
                /\ UNCHANGED apps_url
    /\ UNCHANGED <<response, stages>>
    /\ UNCHANGED <<state, enable_retries, now, start_time, attempts, sleeps, all_props_dict,
                   metadata_in, metadata_out, webui_address, name>>

\* lines 170, 123-125: GET {apps_url}
RequestApps ==
    /\ pc = "apps"
    /\ ~apps_url.is_none
    /\ io' = "get_apps"
    /\ stages' = Append(stages, "lister")
    /\ \E resp \in AppsResponses :
          response' = [endpoint |-> "apps", url |-> apps_url.url, body |-> resp]
    /\ pc' = "apps_response"
    /\ UNCHANGED <<apps_url, chain, apps, env_url, spark_properties, file_properties>>
    /\ UNCHANGED <<state, enable_retries, now, start_time, attempts, sleeps, all_props_dict,
                   metadata_in, metadata_out, webui_address, name>>

\* variant: a body that is no JSON is a terminal failure, whatever its text
ListApps_NoMarker ==
    /\ pc = "apps_response"
    /\ io' = "none"
    /\ LET resp == response.body
       IN  IF resp.kind = "request_exception"
           THEN ChainEnds(Returned(NoneValue))
           ELSE IF resp.kind = "not_json"
           THEN ChainEnds(Raised("DatabricksJobNameDiscoverException"))
           ELSE IF resp.json = "null"
           THEN ChainEnds(Returned(NoneValue))
           ELSE IF resp.json = "number"
           THEN \* len(apps) raises TypeError
                ChainEnds(Raised("Exception"))
           ELSE IF Len(resp.items) = 0
           THEN ChainEnds(Returned(NoneValue))
           ELSE /\ apps' = resp.items
                /\ pc' = "env_url"
                /\ UNCHANGED <<chain, env_url, spark_properties, file_properties>>
    /\ UNCHANGED <<apps_url, response, stages>>
    /\ UNCHANGED <<state, enable_retries, now, start_time, attempts, sleeps, all_props_dict,
                   metadata_in, metadata_out, webui_address, name>>

\* lines 126-140 of _spark_apps_json and lines 170-175
ListApps ==
    /\ pc = "apps_response"
    /\ io' = "none"
    /\ LET resp == response.body
       IN  IF resp.kind = "request_exception"
           THEN ChainEnds(Returned(NoneValue))
           ELSE IF resp.kind = "not_json"
           THEN IF resp.starting_up
                THEN ChainEnds(Returned(NoneValue))
                ELSE ChainEnds(Raised("DatabricksJobNameDiscoverException"))
           ELSE IF resp.json = "null"
           THEN ChainEnds(Returned(NoneValue))
           ELSE IF resp.json = "number"
           THEN \* len(apps) raises TypeError
                ChainEnds(Raised("Exception"))
           ELSE IF Len(resp.items) = 0
           THEN ChainEnds(Returned(NoneValue))
           ELSE /\ apps' = resp.items
                /\ pc' = "env_url"
                /\ UNCHANGED <<chain, env_url, spark_properties, file_properties>>
    /\ UNCHANGED <<apps_url, response, stages>>
    /\ UNCHANGED <<state, enable_retries, now, start_time, attempts, sleeps, all_props_dict,
                   metadata_in, metadata_out, webui_address, name>>

\* variant: the environment of the last application listed is asked for
BuildEnvUrl_LastApp ==
    /\ pc = "env_url"
    /\ io' = "none"
    /\ IF ~apps[Len(apps)].has_id
       THEN \* KeyError
            /\ ChainEnds(Raised("Exception"))
            /\ UNCHANGED stages
       ELSE /\ env_url' = Url(apps_url.url \o <<"/", apps[Len(apps)].id, "/environment">>)
            /\ pc' = "env_request"
            /\ stages' = Append(stages, "fetcher")
            /\ UNCHANGED <<chain, apps, spark_properties, file_properties>>
    /\ UNCHANGED <<apps_url, response>>
    /\ UNCHANGED <<state, enable_retries, now, start_time, attempts, sleeps, all_props_dict,
                   metadata_in, metadata_out, webui_address, name>>

\* line 178: apps[0]["id"], and lines 143-144
BuildEnvUrl ==
    /\ pc = "env_url"
    /\ io' = "none"
    /\ IF ~apps[1].has_id
       THEN \* KeyError
            /\ ChainEnds(Raised("Exception"))
            /\ UNCHANGED stages
       ELSE /\ env_url' = Url(apps_url.url \o <<"/", apps[1].id, "/environment">>)
            /\ pc' = "env_request"
            /\ stages' = Append(stages, "fetcher")
            /\ UNCHANGED <<chain, apps, spark_properties, file_properties>>
    /\ UNCHANGED <<apps_url, response>>
    /\ UNCHANGED <<state, enable_retries, now, start_time, attempts, sleeps, all_props_dict,
                   metadata_in, metadata_out, webui_address, name>>

\* lines 145-146: GET {env_url}
RequestEnv ==
    /\ pc = "env_request"
    /\ io' = "get_env"
    /\ \E resp \in EnvResponses :
          response' = [endpoint |-> "env", url |-> env_url.url, body |-> resp]
    /\ pc' = "env_response"
    /\ UNCHANGED <<apps_url, chain, apps, env_url, spark_properties, file_properties, stages>>
    /\ UNCHANGED <<state, enable_retries, now, start_time, attempts, sleeps, all_props_dict,
                   metadata_in, metadata_out, webui_address, name>>

\* variant: a failed environment request is not-ready, as a failed applications request is
SparkAppEnv_Tolerant ==
    /\ pc = "env_response"
    /\ io' = "none"
    /\ LET resp == response.body
       IN  IF resp.kind \in {"request_exception", "http_error"}
           THEN ChainEnds(Returned(NoneValue))
           ELSE IF resp.kind \in {"not_json", "no_spark_properties", "bad_spark_properties"}
           THEN ChainEnds(Raised("DatabricksJobNameDiscoverException"))
           ELSE IF resp.kind = "json_list"
           THEN \* a list has no get(): AttributeError
                ChainEnds(Raised("Exception"))
           ELSE /\ spark_properties' = resp.spark_properties
                /\ pc' = "extract"
                /\ env_url' = NoUrl
                /\ apps' = <<>>
                /\ UNCHANGED <<chain, file_properties>>
    /\ UNCHANGED <<apps_url, response, stages>>
    /\ UNCHANGED <<state, enable_retries, now, start_time, attempts, sleeps, all_props_dict,
                   metadata_in, metadata_out, webui_address, name>>

\* lines 147-154 of _spark_app_env_json and lines 179-187
SparkAppEnv ==
    /\ pc = "env_response"
    /\ io' = "none"
    /\ LET resp == response.body
       IN  IF resp.kind \in {"request_exception", "http_error", "not_json",
                             "no_spark_properties", "bad_spark_properties"}
           THEN ChainEnds(Raised("DatabricksJobNameDiscoverException"))
           ELSE IF resp.kind = "json_list"
           THEN \* a list has no get(): AttributeError
                ChainEnds(Raised("Exception"))
           ELSE /\ spark_properties' = resp.spark_properties
                /\ pc' = "extract"
                /\ env_url' = NoUrl
                /\ apps' = <<>>
                /\ UNCHANGED <<chain, file_properties>>
    /\ UNCHANGED <<apps_url, response, stages>>
    /\ UNCHANGED <<state, enable_retries, now, start_time, attempts, sleeps, all_props_dict,
                   metadata_in, metadata_out, webui_address, name>>

\* lines 189-220
Extract ==
    /\ pc = "extract"
    /\ io' = "none"
    /\ stages' = Append(stages, "extractor")
    /\ ChainEnds(extract_metadata(spark_properties))
    /\ UNCHANGED <<apps_url, response>>
    /\ UNCHANGED <<state, enable_retries, now, start_time, attempts, sleeps, all_props_dict,
                   metadata_in, metadata_out, webui_address, name>>

\* extract_relevant_metadata returns v
Return(outcome, v) ==
    /\ state' = outcome
    /\ all_props_dict' = v
    /\ pc' = "done"
    /\ io' = "none"
    /\ UNCHANGED <<enable_retries, now, start_time, apps_url, attempts, sleeps, chain, apps,
                   env_url, spark_properties, metadata_in, metadata_out, file_properties, response,
                   stages, webui_address, name>>

\* line 88: the walrus condition, bool() of what the chain returned
is_ready(v) == Truthy(v)

\* lines 88-93
ReturnMetadata ==
    /\ pc = "dispatch"
    /\ chain.kind = "returned"
    /\ is_ready(chain.value)
    /\ Return("Success", chain.value)

\* lines 94-96: time.sleep returns once the interval has passed
SleepBeforeRetry ==
    /\ pc = "dispatch"
    /\ chain.kind = "returned"
    /\ ~is_ready(chain.value)
    /\ now' = now + RETRY_INTERVAL_S
    /\ sleeps' = sleeps + 1
    /\ io' = "sleep"
    /\ pc' = "retries"
    /\ UNCHANGED <<state, enable_retries, start_time, apps_url, attempts, chain, apps,
                   env_url, spark_properties, all_props_dict, metadata_in, metadata_out,
                   file_properties, response, stages, webui_address, name>>

\* variant: a terminal failure is slept on and retried
CatchDiscoverException_Retry ==
    /\ pc = "dispatch"
    /\ chain.kind = "DatabricksJobNameDiscoverException"
    /\ now' = now + RETRY_INTERVAL_S
    /\ sleeps' = sleeps + 1
    /\ io' = "sleep"
    /\ pc' = "retries"
    /\ UNCHANGED <<state, enable_retries, start_time, apps_url, attempts, chain, apps,
                   env_url, spark_properties, all_props_dict, metadata_in, metadata_out,
                   file_properties, response, stages, webui_address, name>>

\* lines 97-99
CatchDiscoverException ==
    /\ pc = "dispatch"
    /\ chain.kind = "DatabricksJobNameDiscoverException"
    /\ Return("Aborted", NoneValue)

\* variant: no handler for Exception, it reaches the caller
CatchException_Missing ==
    /\ pc = "dispatch"
    /\ chain.kind = "Exception"
    /\ Return("Raised", NoneValue)

\* lines 100-102
CatchException ==
    /\ pc = "dispatch"
    /\ chain.kind = "Exception"
    /\ Return("Aborted", NoneValue)

\* variant: enable_retries is not looked at
CheckRetries_Always ==
    /\ pc = "retries"
    /\ pc' = "while"
    /\ io' = "none"
    /\ UNCHANGED <<state, enable_retries, now, start_time, apps_url, attempts, sleeps, chain,
                   apps, env_url, spark_properties, all_props_dict, metadata_in, metadata_out,
                   file_properties, response, stages, webui_address, name>>

\* lines 103-104
CheckRetries ==
    /\ pc = "retries"
    /\ pc' = IF ~enable_retries THEN "after_loop" ELSE "while"
    /\ io' = "none"
    /\ UNCHANGED <<state, enable_retries, now, start_time, apps_url, attempts, sleeps, chain,
                   apps, env_url, spark_properties, all_props_dict, metadata_in, metadata_out,
                   file_properties, response, stages, webui_address, name>>

\* variant: the timeout is raised to the caller
TimeoutExit_Raise ==
    /\ pc = "after_loop"
    /\ Return("Raised", NoneValue)

\* lines 105-106
TimeoutExit ==
    /\ pc = "after_loop"
    /\ Return("TimedOut", NoneValue)

Next ==
    \/ Enter
    \/ WhileEnter
    \/ WhileExit
    \/ IsFile
    \/ DiscoverAppsUrl
    \/ ParseProperties
    \/ RequestApps
    \/ ListApps
    \/ BuildEnvUrl
    \/ RequestEnv
    \/ SparkAppEnv
    \/ Extract
    \/ ReturnMetadata
    \/ SleepBeforeRetry
    \/ CatchDiscoverException
    \/ CatchException
    \/ CheckRetries
    \/ TimeoutExit

Spec == Init /\ [][Next]_vars

\* the steps of a poll that ends not-ready, and of the loop around such polls
PollStep ==
    \/ Enter
    \/ WhileEnter
    \/ WhileExit
    \/ IsFile
    \/ DiscoverAppsUrl
    \/ ParseProperties
    \/ RequestApps
    \/ ListApps
    \/ SleepBeforeRetry
    \/ CheckRetries
    \/ TimeoutExit

\* extract_relevant_metadata is sequential code: a step that can be taken is taken.
\* Progress is assumed for the polling steps only, the weakest assumption under which
\* a run of not-ready polls comes to its end.
FairSpec == Spec /\ WF_vars(PollStep)

(***************************************************************************)
(* _apply_pattern called on its own, on every mapping of a bounded family. *)
(***************************************************************************)
\* the fragments cluster names are concatenated from
NameTokens ==
    { <<"r", "u", "n", "-">>, <<"R", "u", "n", "-">>, <<"1">>, <<"1", "-">>, <<" ">>, <<"x">> }

RECURSIVE TokenStrings(_)
\* the concatenations of at most n fragments
TokenStrings(n) ==
    IF n = 0
    THEN {<<>>}
    ELSE LET shorter == TokenStrings(n - 1)
         IN  shorter \cup {q \o t : q \in shorter, t \in NameTokens}

\* "A  b": two adjacent spaces
TwoSpacesValue == <<"A", " ", " ", "b">>

PatternInputs ==
    { LET opts == [k \in {JOB_NAME_KEY, CLUSTER_NAME_KEY, "Vendor"} |->
                      IF k = JOB_NAME_KEY THEN j ELSE IF k = CLUSTER_NAME_KEY THEN c ELSE o]
      IN  [k \in {q \in DOMAIN opts : opts[q].present} |-> opts[k].v] :
        j \in {Absent, Present(<<>>), Present(JobNameValue), Present(TwoSpacesValue)},
        c \in {Absent} \cup {Present(x) : x \in TokenStrings(MaxTokens)},
        o \in {Absent, Present(VendorValue)} }

InitPattern ==
    /\ pc = "pattern_call"
    /\ metadata_in \in PatternInputs
    /\ metadata_out = EmptyDict
    /\ state = "Init"
    /\ enable_retries = TRUE
    /\ now = 0
    /\ start_time = 0
    /\ apps_url = NoUrl
    /\ attempts = 0
    /\ sleeps = 0
    /\ io = "none"
    /\ chain = Running
    /\ apps = <<>>
    /\ env_url = NoUrl
    /\ spark_properties = EmptyDict
    /\ all_props_dict = NoneValue
    /\ file_properties = NoProperties
    /\ response = NoResponse
    /\ stages = <<>>
    /\ webui_address = <<>>
    /\ name = NoName

\* lines 231-237
ApplyPattern ==
    /\ pc = "pattern_call"
    /\ metadata_out' = _apply_pattern(metadata_in)
    /\ pc' = "pattern_return"
    /\ UNCHANGED <<state, enable_retries, now, start_time, apps_url, attempts, sleeps, io,
                   chain, apps, env_url, spark_properties, all_props_dict, metadata_in,
                   file_properties, response, stages, webui_address, name>>

NextPattern == ApplyPattern

SpecPattern == InitPattern /\ [][NextPattern]_vars

(***************************************************************************)
(* get_webui_address called on its own, on every file of a bounded family, *)
(* and called again on the same file.                                      *)
(***************************************************************************)
\* the lines properties files are made of: key=value lines (one with a "=" in its
\* value, one with an empty value), a blank line, and a line without "="
PropertyLines ==
    { <<HOST_KEY_NAME, "=", "10.0.0.1">>,
      <<HOST_KEY_NAME, "=", "10.0.0.2">>,
      <<HOST_KEY_NAME, "=", "a", "=", "b">>,
      <<HOST_KEY_NAME, "=">>,
      <<"spark.x", "=", "1">>,
      <<>>,
      <<"garbage">> }

PropertiesFiles == SeqsUpTo(PropertyLines, MaxLines)

InitResolve ==
    /\ pc = "resolve_call"
    /\ file_properties \in {PropertiesRead(c) : c \in PropertiesFiles}
    /\ webui_address = <<>>
    /\ metadata_in = EmptyDict
    /\ metadata_out = EmptyDict
    /\ state = "Init"
    /\ enable_retries = TRUE
    /\ now = 0
    /\ start_time = 0
    /\ apps_url = NoUrl
    /\ attempts = 0
    /\ sleeps = 0
    /\ io = "none"
    /\ chain = Running
    /\ apps = <<>>
    /\ env_url = NoUrl
    /\ spark_properties = EmptyDict
    /\ all_props_dict = NoneValue
    /\ response = NoResponse
    /\ stages = <<>>
    /\ name = NoName

\* lines 72-81, on the contents of the file
ResolveAddress ==
    /\ pc = "resolve_call"
    /\ Len(webui_address) < MaxCalls
    /\ webui_address' = Append(webui_address, get_webui_address(file_properties.lines))
    /\ io' = "open"
    /\ pc' = IF Len(webui_address) + 1 < MaxCalls THEN "resolve_call" ELSE "resolve_return"
    /\ UNCHANGED <<state, enable_retries, now, start_time, apps_url, attempts, sleeps, chain,
                   apps, env_url, spark_properties, all_props_dict, metadata_in, metadata_out,
                   file_properties, response, stages, name>>

NextResolve == ResolveAddress

SpecResolve == InitResolve /\ [][NextResolve]_vars

(***************************************************************************)
(* get_name_from_metadata called on every mapping of the same family.      *)
(***************************************************************************)
\* variant: a name is used when its key is present, whatever its value
get_name_if_present(metadata) ==
    IF JOB_NAME_KEY \in DOMAIN metadata
    THEN SomeName(<<"j", "o", "b", "-">> \o metadata[JOB_NAME_KEY])
    ELSE IF CLUSTER_NAME_KEY \in DOMAIN metadata
         THEN SomeName(metadata[CLUSTER_NAME_KEY])
         ELSE NoName

\* lines 242-246: metadata.get(key) is None for a missing key, and `if x := ...` takes
\* the branch for a non-empty str only
get_name_from_metadata(metadata) ==
    IF JOB_NAME_KEY \in DOMAIN metadata /\ Len(metadata[JOB_NAME_KEY]) > 0
    THEN SomeName(<<"j", "o", "b", "-">> \o metadata[JOB_NAME_KEY])
    ELSE IF CLUSTER_NAME_KEY \in DOMAIN metadata /\ Len(metadata[CLUSTER_NAME_KEY]) > 0
         THEN SomeName(metadata[CLUSTER_NAME_KEY])
         ELSE NoName

InitName ==
    /\ pc = "name_call"
    /\ metadata_in \in PatternInputs
    /\ name = NoName
    /\ metadata_out = EmptyDict
    /\ state = "Init"
    /\ enable_retries = TRUE
    /\ now = 0
    /\ start_time = 0
    /\ apps_url = NoUrl
    /\ attempts = 0
    /\ sleeps = 0
    /\ io = "none"
    /\ chain = Running
    /\ apps = <<>>
    /\ env_url = NoUrl
    /\ spark_properties = EmptyDict
    /\ all_props_dict = NoneValue
    /\ file_properties = NoProperties
    /\ response = NoResponse
    /\ stages = <<>>
    /\ webui_address = <<>>

\* lines 240-246
GetNameFromMetadata ==
    /\ pc = "name_call"
    /\ name' = get_name_from_metadata(metadata_in)
    /\ pc' = "name_return"
    /\ UNCHANGED <<state, enable_retries, now, start_time, apps_url, attempts, sleeps, io,
                   chain, apps, env_url, spark_properties, all_props_dict, metadata_in,
                   metadata_out, file_properties, response, stages, webui_address>>

NextName == GetNameFromMetadata

SpecName == InitName /\ [][NextName]_vars

(***************************************************************************)
(* Properties.                                                             *)
(***************************************************************************)
HasSpace(s) == \E i \in DOMAIN s : s[i] = " "
HasUpper(s) == \E i \in DOMAIN s : IsUpper(s[i])

\* s[i..j] is "run-", one or more digits, "-"
IsRunId(s, i, j) ==
    /\ 1 <= i
    /\ j <= Len(s)
    /\ j >= i + 5
    /\ SubSeq(s, i, i + 3) = <<"r", "u", "n", "-">>
    /\ \A k \in (i + 4)..(j - 1) : s[k] \in Digits
    /\ s[j] = "-"

\* s has a substring matching run-<digits>-
ContainsRunId(s) == \E i \in DOMAIN s : \E j \in DOMAIN s : IsRunId(s, i, j)

\* s[i..j] is a non-empty beginning of a run id that stops short of its last "-":
\* "r", "ru", "run", "run-", or "run-" and digits
IsRunIdStart(s, i, j) ==
    /\ 1 <= i
    /\ i <= j
    /\ j <= Len(s)
    /\ \A k \in i..j :
          IF k - i < 4 THEN s[k] = <<"r", "u", "n", "-">>[k - i + 1] ELSE s[k] \in Digits

\* some run id of s comes right after the beginning of another one
HasNestedRunId(s) ==
    \E i \in DOMAIN s : \E j \in DOMAIN s :
        /\ IsRunId(s, i, j)
        /\ \E b \in 1..(i - 1) : IsRunIdStart(s, b, i - 1)

Finished == pc = "done"

\* C1: extract_relevant_metadata ends in exactly one of Success (the mapping is
\* returned), TimedOut (None is returned) or Aborted (None is returned), whatever the
\* stages do; no exception reaches its caller: whatever a chain call raised is a
\* DatabricksJobNameDiscoverException or an Exception, which lines 97-102 catch.
C1_NeverRaises ==
    /\ state # "Raised"
    /\ Finished => /\ state \in {"Success", "TimedOut", "Aborted"}
                   /\ state = "Success" <=> ~all_props_dict.is_none
    /\ ~Finished => state \in {"Init", "Polling"}
    /\ pc = "dispatch"
          => chain.kind \in {"returned", "DatabricksJobNameDiscoverException", "Exception"}

\* an unexpected exception (not a DatabricksJobNameDiscoverException) was raised by a
\* stage and the run ended Aborted
C1_Witness ==
    /\ Finished
    /\ chain.kind = "Exception"
    /\ state = "Aborted"
    /\ all_props_dict.is_none

\* every poll so far was not-ready: no chain call raised or returned a mapping, and
\* none got a non-empty application list (past line 175 a call returns a mapping or
\* raises)
OnlyNotReady ==
    /\ chain.kind \in {"running", "returned"}
    /\ chain.value.is_none
    /\ pc \notin {"env_url", "env_request", "env_response", "extract"}

\* C2: in retry mode, if every poll is not-ready, the run eventually returns None in
\* state TimedOut, and it is never Aborted and never raises.
C2_EventuallyTimedOut ==
    /\ <>(\/ ~enable_retries
          \/ ~OnlyNotReady
          \/ Finished /\ state = "TimedOut" /\ all_props_dict.is_none)
    /\ [](OnlyNotReady => state \notin {"Aborted", "Raised", "Success"})

\* a retry-mode run timed out after polling DATABRICKS_JOBNAME_TIMEOUT_S times, each
\* poll not-ready
C2_Witness ==
    /\ enable_retries
    /\ Finished
    /\ state = "TimedOut"
    /\ OnlyNotReady
    /\ attempts = DATABRICKS_JOBNAME_TIMEOUT_S
    /\ sleeps = DATABRICKS_JOBNAME_TIMEOUT_S

\* C3: once a stage has raised DatabricksJobNameDiscoverException, the next step of
\* the run returns None in state Aborted, and it does no sleep, no file access and no
\* HTTP request and starts no new attempt; this in both modes.
C3_TerminalAborts ==
    [][chain.kind = "DatabricksJobNameDiscoverException"
         => /\ state' = "Aborted"
            /\ pc' = "done"
            /\ all_props_dict'.is_none
            /\ io' = "none"
            /\ sleeps' = sleeps
            /\ attempts' = attempts
            /\ now' = now]_vars

\* a retry-mode run that had polled before was aborted by a terminal failure
C3_Witness ==
    /\ enable_retries
    /\ Finished
    /\ state = "Aborted"
    /\ chain.kind = "DatabricksJobNameDiscoverException"
    /\ attempts > 1

\* C4: a chain run that returned a non-null mapping is never followed by a sleep: the
\* orchestrator is in Success with that mapping, or about to return it.
C4_NonNullIsSuccess ==
    (chain.kind = "returned" /\ ~chain.value.is_none)
        => /\ pc \in {"dispatch", "done"}
           /\ Finished => (state = "Success" /\ all_props_dict = chain.value)

\* C5: in single-attempt mode the chain is run exactly once per run.
C5_SingleAttempt ==
    ~enable_retries
        => /\ attempts <= 1
           /\ pc \notin {"enter", "while"} => attempts = 1
           /\ Finished => attempts = 1

\* a single-attempt run whose only attempt was not-ready has returned
C5_Witness ==
    /\ ~enable_retries
    /\ Finished
    /\ state = "TimedOut"
    /\ chain.kind = "returned"
    /\ attempts = 1

\* C6: in single-attempt mode no sleep is executed.
C6_SingleAttemptNeverSleeps == ~enable_retries => sleeps = 0

\* the values the environment gives for a job name or a cluster name: the RunName and
\* ClusterName records of the clusterAllTags array, and the clusterName property
NameValues(props) ==
    (IF CLUSTER_USAGE_ALL_TAGS_PROP \in DOMAIN props
     THEN LET items == props[CLUSTER_USAGE_ALL_TAGS_PROP].items
          IN  {items[i].value : i \in {n \in DOMAIN items :
                                          items[n].key \in {JOB_NAME_KEY, CLUSTER_NAME_KEY}}}
     ELSE {})
    \cup (IF CLUSTER_USAGE_CLUSTER_NAME_PROP \in DOMAIN props
          THEN {props[CLUSTER_USAGE_CLUSTER_NAME_PROP]}
          ELSE {})

\* C7, as claimed: a run returns a non-empty mapping only if the environment had a job
\* name or a cluster name whose value does not contain "redacted".
C7_NonEmptyHasName ==
    (state = "Success" /\ DOMAIN all_props_dict.dict # {})
        => \E v \in NameValues(spark_properties) : ~str_contains(v, DATABRICKS_REDACTED_STR)

\* C7, amended: a run returns a mapping only if sparkProperties had the clusterAllTags
\* property with a value that does not contain "redacted", or the clusterName property.
C7_NonEmptyHasSource ==
    state = "Success"
        => /\ DOMAIN all_props_dict.dict # {}
           /\ \/ /\ CLUSTER_USAGE_ALL_TAGS_PROP \in DOMAIN spark_properties
                 /\ ~str_contains(spark_properties[CLUSTER_USAGE_ALL_TAGS_PROP].text,
                                  DATABRICKS_REDACTED_STR)
              \/ CLUSTER_USAGE_CLUSTER_NAME_PROP \in DOMAIN spark_properties

\* a run returned a mapping that holds neither name
C7_Witness ==
    /\ state = "Success"
    /\ DOMAIN all_props_dict.dict # {}
    /\ JOB_NAME_KEY \notin DOMAIN all_props_dict.dict
    /\ CLUSTER_NAME_KEY \notin DOMAIN all_props_dict.dict

PatternReturned == pc = "pattern_return"

\* C8, as claimed: the ClusterName that _apply_pattern returns has no substring
\* matching run-<digits>-, whatever the cluster name given.
C8_NoRunIdLeft ==
    (PatternReturned /\ CLUSTER_NAME_KEY \in DOMAIN metadata_out)
        => ~ContainsRunId(metadata_out[CLUSTER_NAME_KEY])

\* the cluster names the amended claim covers
PlainClusterName(s) == ~HasUpper(s) /\ ~HasSpace(s) /\ ~HasNestedRunId(s)

\* C8, amended: the ClusterName that _apply_pattern returns has no substring matching
\* run-<digits>- when the cluster name given has no upper-case letter, no space and no
\* run id that comes right after the beginning of another one.
C8_NoRunIdLeftInPlainName ==
    (/\ PatternReturned
     /\ CLUSTER_NAME_KEY \in DOMAIN metadata_in
     /\ PlainClusterName(metadata_in[CLUSTER_NAME_KEY]))
        => /\ CLUSTER_NAME_KEY \in DOMAIN metadata_out
           /\ ~ContainsRunId(metadata_out[CLUSTER_NAME_KEY])

\* _apply_pattern returned for a covered cluster name that had two adjacent run ids
C8_Witness ==
    /\ PatternReturned
    /\ CLUSTER_NAME_KEY \in DOMAIN metadata_in
    /\ PlainClusterName(metadata_in[CLUSTER_NAME_KEY])
    /\ \E i, j, k, l \in DOMAIN metadata_in[CLUSTER_NAME_KEY] :
          /\ k = j + 1
          /\ IsRunId(metadata_in[CLUSTER_NAME_KEY], i, j)
          /\ IsRunId(metadata_in[CLUSTER_NAME_KEY], k, l)

\* C9, as claimed: no value of a returned mapping has a space or an upper-case letter.
C9_AllValuesNormalized ==
    state = "Success"
        => \A k \in DOMAIN all_props_dict.dict :
              ~HasSpace(all_props_dict.dict[k]) /\ ~HasUpper(all_props_dict.dict[k])

\* C9, amended: the RunName and the ClusterName value of a returned mapping have no
\* space and no upper-case letter.
C9_NamesNormalized ==
    state = "Success"
        => \A k \in (DOMAIN all_props_dict.dict) \cap {JOB_NAME_KEY, CLUSTER_NAME_KEY} :
              ~HasSpace(all_props_dict.dict[k]) /\ ~HasUpper(all_props_dict.dict[k])

\* a run returned a mapping with both names, taken from a clusterAllTags array
C9_Witness ==
    /\ state = "Success"
    /\ {JOB_NAME_KEY, CLUSTER_NAME_KEY} \subseteq DOMAIN all_props_dict.dict
    /\ \E v \in NameValues(spark_properties) : HasSpace(v) /\ HasUpper(v)

\* t is s with every space turned into a dash and every upper-case letter into its
\* lower-case letter, position by position
IsNormalized(s, t) ==
    /\ Len(t) = Len(s)
    /\ \A i \in DOMAIN s :
          IF s[i] = " " THEN t[i] = "-"
          ELSE IF IsUpper(s[i])
               THEN \E k \in DOMAIN UpperChars : UpperChars[k] = s[i] /\ LowerChars[k] = t[i]
               ELSE t[i] = s[i]

\* C10: _apply_pattern returns a mapping with the keys given; its RunName and
\* ClusterName have no space and no upper-case letter, RunName being the given value
\* with spaces turned into dashes and letters lower-cased, ClusterName likewise from
\* the given value with its run ids stripped; every other value is the one given.
C10_ApplyPattern ==
    PatternReturned
        => /\ DOMAIN metadata_out = DOMAIN metadata_in
           /\ \A k \in DOMAIN metadata_in :
                 IF k = JOB_NAME_KEY
                 THEN /\ IsNormalized(metadata_in[k], metadata_out[k])
                      /\ ~HasSpace(metadata_out[k]) /\ ~HasUpper(metadata_out[k])
                 ELSE IF k = CLUSTER_NAME_KEY
                 THEN /\ IsNormalized(re_sub_run_id(metadata_in[k]), metadata_out[k])
                      /\ ~HasSpace(metadata_out[k]) /\ ~HasUpper(metadata_out[k])
                 ELSE metadata_out[k] = metadata_in[k]

\* _apply_pattern returned for a mapping with a job name, a cluster name that has a
\* run id, a space and an upper-case letter, and a third key
C10_Witness ==
    /\ PatternReturned
    /\ DOMAIN metadata_in = {JOB_NAME_KEY, CLUSTER_NAME_KEY, "Vendor"}
    /\ metadata_in[JOB_NAME_KEY] = JobNameValue
    /\ ContainsRunId(metadata_in[CLUSTER_NAME_KEY])
    /\ HasSpace(metadata_in[CLUSTER_NAME_KEY])
    /\ HasUpper(metadata_in[CLUSTER_NAME_KEY])

\* some line of the contents defines the host key: HOST_KEY_NAME is what comes before
\* its first "="
DefinesHostKey(lines) ==
    \E i \in DOMAIN lines :
        /\ \E k \in DOMAIN lines[i] : lines[i][k] = "="
        /\ split_first_eq(lines[i])[1] = <<HOST_KEY_NAME>>

\* C11: whenever the contents read do not define the host key, blank lines and lines
\* without "=" included, the resolution ends the attempt not-ready: None is returned,
\* nothing is raised, and the orchestrator stays in Polling.
C11_MissingKeyIsNotReady ==
    [][(pc = "parse" /\ ~DefinesHostKey(file_properties.lines))
         => /\ chain' = Returned(NoneValue)
            /\ pc' = "dispatch"
            /\ state' = "Polling"]_vars

\* C12: an attempt that found the properties file missing, at the isfile() check or at
\* the open() that follows it, is not-ready and no error: the orchestrator does not
\* abort, it sleeps one interval (and in retry mode polls again).
C12_MissingFileIsNotReady ==
    [][(pc = "dispatch" /\ io \in {"isfile", "open"})
         => /\ chain = Returned(NoneValue)
            /\ state' = "Polling"
            /\ sleeps' = sleeps + 1
            /\ now' = now + RETRY_INTERVAL_S]_vars

\* a response of the applications endpoint that tells the cluster is still starting: the
\* request failed, the body is no JSON and has the "Spark is starting up" text, or the
\* application list is empty
TransientAppsResponse(body) ==
    \/ body.kind = "request_exception"
    \/ body.kind = "not_json" /\ body.starting_up
    \/ body.kind = "json" /\ body.json = "list" /\ body.items = <<>>

\* C13: once the lister has handled a transient response, the attempt has returned None
\* without raising, it ran the resolver and the lister and never the fetcher, and the
\* orchestrator is still Polling (or has timed out since), never Aborted.
C13_TransientIsNotReady ==
    (/\ response.endpoint = "apps"
     /\ TransientAppsResponse(response.body)
     /\ pc # "apps_response")
        => /\ chain = Returned(NoneValue)
           /\ stages = <<"resolver", "lister">>
           /\ io \notin {"get_env"}
           /\ state \in {"Polling", "TimedOut"}
           /\ state = "TimedOut" <=> Finished

\* a retry-mode run slept on a "Spark is starting up" body, after an earlier poll
C13_Witness ==
    /\ enable_retries
    /\ attempts > 1
    /\ pc = "retries"
    /\ response.endpoint = "apps"
    /\ response.body.kind = "not_json"
    /\ response.body.starting_up
    /\ chain = Returned(NoneValue)

\* a failure of the environment fetcher: the request raised, the status is an error, or
\* the body is no JSON
EnvFetchFailure(body) == body.kind \in {"request_exception", "http_error", "not_json"}

\* C14: once the fetcher has failed, the attempt has raised
\* DatabricksJobNameDiscoverException and the run is at its end: nothing was slept on
\* or requested after the failure, and the run finishes Aborted returning None.
C14_EnvFailureIsTerminal ==
    (/\ response.endpoint = "env"
     /\ EnvFetchFailure(response.body)
     /\ pc # "env_response")
        => /\ chain = Raised("DatabricksJobNameDiscoverException")
           /\ pc \in {"dispatch", "done"}
           /\ stages = <<"resolver", "lister", "fetcher">>
           /\ sleeps = attempts - 1
           /\ state \in {"Polling", "Aborted"}
           /\ Finished => (state = "Aborted" /\ all_props_dict.is_none)

\* a retry-mode run was aborted by an error status of the environment endpoint, after
\* an earlier poll
C14_Witness ==
    /\ enable_retries
    /\ attempts > 1
    /\ Finished
    /\ state = "Aborted"
    /\ response.endpoint = "env"
    /\ response.body.kind = "http_error"

\* the extractor has run in the current attempt, on spark_properties
Extracted == Len(stages) = 4 /\ stages[4] = "extractor" /\ pc = "dispatch"

\* the clusterAllTags property is there and its raw value does not contain "redacted"
TagsUsable(props) ==
    /\ CLUSTER_USAGE_ALL_TAGS_PROP \in DOMAIN props
    /\ ~str_contains(props[CLUSTER_USAGE_ALL_TAGS_PROP].text, DATABRICKS_REDACTED_STR)

\* the whitelisted properties whose value does not contain "redacted"
WhitelistedKeys(props) ==
    {p \in (DOMAIN props) \cap CLUSTER_USAGE_RELEVANT_TAGS_PROPS :
        ~str_contains(props[p], DATABRICKS_REDACTED_STR)}

\* v is what the result holds for the value u given under key k
HeldAs(k, u, v) ==
    IF k = JOB_NAME_KEY THEN IsNormalized(u, v)
    ELSE IF k = CLUSTER_NAME_KEY THEN IsNormalized(re_sub_run_id(u), v)
    ELSE v = u

ValidLines(lines) == \A i \in DOMAIN lines : \E k \in DOMAIN lines[i] : lines[i][k] = "="

\* what comes after the first "=" of a line
AfterFirstEq(line) ==
    LET k == CHOOSE n \in DOMAIN line : line[n] = "=" /\ \A m \in 1..(n - 1) : line[m] # "="
    IN  SubSeq(line, k + 1, Len(line))

\* line i of the contents defines the host key, and no later line does
LastDefinition(lines, i) ==
    /\ i \in DOMAIN lines
    /\ Len(lines[i]) >= 2
    /\ lines[i][1] = HOST_KEY_NAME
    /\ lines[i][2] = "="
    /\ \A j \in DOMAIN lines :
          (Len(lines[j]) >= 2 /\ lines[j][1] = HOST_KEY_NAME /\ lines[j][2] = "=") => j <= i

\* C16: on contents made of key=value lines that define the host key, every call of
\* get_webui_address returns "<host>:40001", <host> being what follows the first "=" of
\* the last line that defines the key; a second call returns what the first returned.
C16_ResolvesLastHost ==
    (ValidLines(file_properties.lines) /\ DefinesHostKey(file_properties.lines))
        => /\ \A n \in DOMAIN webui_address :
                 /\ webui_address[n].kind = "returned"
                 /\ \E i \in DOMAIN file_properties.lines :
                       /\ LastDefinition(file_properties.lines, i)
                       /\ webui_address[n].address
                             = AfterFirstEq(file_properties.lines[i]) \o <<":", 40001>>
           /\ \A n, m \in DOMAIN webui_address : webui_address[n] = webui_address[m]

\* get_webui_address was called twice on a file that defines the host key three times,
\* with different values, the last one with a "=" in it
C16_Witness ==
    /\ Len(webui_address) >= 2
    /\ ValidLines(file_properties.lines)
    /\ Len(file_properties.lines) = 3
    /\ file_properties.lines[1] = <<HOST_KEY_NAME, "=", "10.0.0.1">>
    /\ file_properties.lines[2] = <<HOST_KEY_NAME, "=", "10.0.0.2">>
    /\ file_properties.lines[3] = <<HOST_KEY_NAME, "=", "a", "=", "b">>
    /\ webui_address[2].address = <<"a", "=", "b", ":", 40001>>

NameReturned == pc = "name_return"

\* C17, as claimed: get_name_from_metadata returns "job-" and the RunName value when the
\* RunName key is present, whatever its value; else the ClusterName value when the
\* ClusterName key is present; else None.
C17_NameFromMetadata ==
    NameReturned
        => IF JOB_NAME_KEY \in DOMAIN metadata_in
           THEN name = SomeName(<<"j", "o", "b", "-">> \o metadata_in[JOB_NAME_KEY])
           ELSE IF CLUSTER_NAME_KEY \in DOMAIN metadata_in
                THEN name = SomeName(metadata_in[CLUSTER_NAME_KEY])
                ELSE name = NoName

\* C17, amended: get_name_from_metadata returns "job-" and the RunName value when the
\* RunName key is present with a non-empty value; else the ClusterName value when the
\* ClusterName key is present with a non-empty value; else None.
C17_NameFromNonEmpty ==
    NameReturned
        => IF JOB_NAME_KEY \in DOMAIN metadata_in /\ metadata_in[JOB_NAME_KEY] # <<>>
           THEN /\ ~name.is_none
                /\ SubSeq(name.str, 1, 4) = <<"j", "o", "b", "-">>
                /\ SubSeq(name.str, 5, Len(name.str)) = metadata_in[JOB_NAME_KEY]
           ELSE IF /\ CLUSTER_NAME_KEY \in DOMAIN metadata_in
                   /\ metadata_in[CLUSTER_NAME_KEY] # <<>>
                THEN ~name.is_none /\ name.str = metadata_in[CLUSTER_NAME_KEY]
                ELSE name.is_none

\* get_name_from_metadata returned the cluster name of a mapping whose RunName is the
\* empty string
C17_Witness ==
    /\ NameReturned
    /\ JOB_NAME_KEY \in DOMAIN metadata_in
    /\ metadata_in[JOB_NAME_KEY] = <<>>
    /\ CLUSTER_NAME_KEY \in DOMAIN metadata_in
    /\ ~name.is_none
    /\ name.str = metadata_in[CLUSTER_NAME_KEY]

\* C18: _apps_url is None until a resolution succeeds; once set it never changes and
\* the properties file is not opened again; every HTTP request is made once it is set
\* and its URL begins with it.
C18_TargetSetOnce ==
    /\ [][/\ ~apps_url.is_none
             => /\ apps_url' = apps_url
                /\ io' # "open"
                /\ file_properties'.is_none
          /\ (apps_url.is_none /\ ~apps_url'.is_none)
             => /\ pc = "parse"
                /\ get_webui_address(file_properties.lines).kind = "returned"]_vars
    /\ [](response.endpoint # "none"
            => /\ ~apps_url.is_none
               /\ Len(response.url) >= Len(apps_url.url)
               /\ SubSeq(response.url, 1, Len(apps_url.url)) = apps_url.url)
    /\ [](apps_url.is_none => (response.endpoint = "none" /\ io \notin {"get_apps", "get_env"}))

\* a retry-mode run requested the environment of an application in a poll that came
\* after two others, from the address it had resolved
C18_Witness ==
    /\ enable_retries
    /\ attempts > 2
    /\ ~apps_url.is_none
    /\ response.endpoint = "env"
    /\ io = "get_env"

StageOrder == <<"resolver", "lister", "fetcher", "extractor">>

\* C19: the stages of an attempt run in the order resolver, lister, fetcher, extractor;
\* the applications endpoint is requested only with an address resolved; the
\* environment endpoint is requested only after the applications request of the same
\* attempt returned a non-empty list, and for the id of its first entry; an attempt
\* that ended not-ready ran no stage after the one that yielded not-ready, and no stage
\* runs between the end of an attempt and the start of the next.
C19_StageOrder ==
    /\ [](/\ Len(stages) <= Len(StageOrder)
          /\ stages = SubSeq(StageOrder, 1, Len(stages)))
    /\ [](io = "get_apps"
            => /\ ~apps_url.is_none
               /\ response.endpoint = "apps"
               /\ response.url = apps_url.url)
    /\ [][io' = "get_env"
            => /\ response.endpoint = "apps"
               /\ response.body.kind = "json"
               /\ response.body.json = "list"
               /\ response.body.items # <<>>
               /\ stages = <<"resolver", "lister", "fetcher">>
               /\ attempts' = attempts
               /\ response'.endpoint = "env"
               /\ response'.url
                     = apps_url.url \o <<"/", response.body.items[1].id, "/environment">>]_vars
    /\ []((chain = Returned(NoneValue) /\ pc # "isfile")
            => /\ stages \in {<<"resolver">>, <<"resolver", "lister">>}
               /\ response.endpoint \in {"none", "apps"})
    /\ [][(pc \in {"dispatch", "retries", "after_loop", "done"})
            => /\ stages' = stages
               /\ response' = response
               /\ io' \in {"none", "sleep"}]_vars

\* the environment was requested for the first entry of a list of two applications
C19_Witness ==
    /\ io = "get_env"
    /\ Len(apps) = 2
    /\ apps[1].id = "app-2"
    /\ apps[2].id = "app-1"
    /\ response.endpoint = "env"
    /\ response.url = apps_url.url \o <<"/", "app-2", "/environment">>

\* C20: an attempt starts only while less than 120 seconds have passed since entry, and
\* only when every earlier attempt has been slept on once; a sleep lasts 1 second and
\* follows a not-ready attempt, once; the clock of a run is moved by its sleeps alone;
\* hence a retry-mode run makes at most 120 attempts.
C20_BoundedPolling ==
    /\ [][attempts' # attempts
            => /\ attempts' = attempts + 1
               /\ now - start_time < 120
               /\ sleeps = attempts]_vars
    /\ [][sleeps' # sleeps
            => /\ sleeps' = sleeps + 1
               /\ sleeps' = attempts
               /\ now' = now + 1
               /\ chain.kind = "returned"
               /\ ~Truthy(chain.value)]_vars
    /\ [](/\ now - start_time = sleeps
          /\ sleeps \in {attempts - 1, attempts} \cup {0}
          /\ enable_retries => attempts <= 120)

\* a retry-mode run is back at the loop condition 120 seconds after entry, its 120th
\* attempt slept on
C20_Witness ==
    /\ enable_retries
    /\ pc = "while"
    /\ now - start_time = 120
    /\ attempts = 120
    /\ sleeps = 120

====
